---- MODULE Spec2Model ----
(***************************************************************************)
(* The repository analysis pipeline of autopilotdev: the controller's      *)
(* analyzeRepository handler, RepoAnalyzer (clone, walk, cleanup), the     *)
(* OpenAI enrichment adapter, the Analysis record store and the            *)
(* per-analysis controller operations.                                     *)
(***************************************************************************)
EXTENDS Integers, Sequences, FiniteSets, TLC

\* ------------------------------------------------------------------ bounds
MaxRuns == 2        \* start-analysis requests handled concurrently

RunIds == 1..MaxRuns
\* `${Date.now()}_${random}`: one directory name per call of cloneRepository
RepoIds == RunIds
Users == {"u1", "u2"}
NoDoc == 0
NoPath == 0
\* a request body without a depth field
NoDepth == -1

MaxDocs == 1        \* documents in the store when the controller operations start

VARIABLES
  run,      \* per request: position in the handler and its locals
  disk,     \* temp/repos: for each repoId "absent", "empty" (mkdir) or "tree" (cloned)
  db,       \* the Analysis collection: _id -> document
  nextId,   \* next _id / createdAt the store hands out
  resp,     \* the response of the last per-analysis operation
  tree,     \* the content of a cloned workspace handed to the analyzer's walks
  out,      \* what the analyzer method last applied to tree returned
  ws,       \* the express-ws connections to /:analysisId/stream
  sockets   \* the socket.io connections of the server

vars == <<run, disk, db, nextId, resp, tree, out, ws, sockets>>

\* ------------------------------------------------------- enrichment adapter
\* what client.chat.completions.create(...) can do
\* "json": a completion that is the insights object; "emptyJson": the completion "{}";
\* "text": a completion that is not JSON; or the call throws
CreateOutcomes == {"json", "emptyJson", "text", "timeout", "unavailable"}
CreateThrows == {"timeout", "unavailable"}
InsightKeys == {"architecture", "quality", "performance", "security", "devops"}

\* getMockInsights: the static fallback object (its key set)
getMockInsights == InsightKeys

\* parseAIResponse: JSON.parse(content), or { raw: content } when that throws
parseAIResponse(content) ==
  IF content = "json" THEN InsightKeys
  ELSE IF content = "emptyJson" THEN {}
  ELSE {"raw"}

\* variant of getRepositoryInsights whose catch rethrows instead of falling back
getRepositoryInsights_rethrow(outcome) ==
  IF outcome \in CreateThrows
    THEN [threw |-> TRUE, insights |-> {}]
    ELSE [threw |-> FALSE, insights |-> parseAIResponse(outcome)]

\* getRepositoryInsights: try { create; parseAIResponse } catch { getMockInsights }
getRepositoryInsights(outcome) ==
  IF outcome \in CreateThrows
    THEN [threw |-> FALSE, insights |-> getMockInsights]
    ELSE [threw |-> FALSE, insights |-> parseAIResponse(outcome)]

\* --------------------------------------------------------------- the store
Terminal == {"completed", "failed"}

\* variant of findOne whose filter leaves userId out
findOne_anyOwner(store, id, userId) ==
  IF id \in DOMAIN store THEN id ELSE NoDoc

\* Analysis.findOne({ _id, userId })
findOne(store, id, userId) ==
  IF id \in DOMAIN store /\ store[id].userId = userId THEN id ELSE NoDoc

\* new Analysis({...}).save() in the success path of the controller
CompletedDoc(userId, url, branch, aiInsights, now) ==
  [userId |-> userId, repositoryUrl |-> url, branch |-> branch,
   status |-> "completed", createdAt |-> now,
   analysisData |-> TRUE, insights |-> aiInsights,
   codeReview |-> FALSE, dependencies |-> "pipeline",
   metrics |-> TRUE, complexity |-> "unset", error |-> "none"]

\* new Analysis({...}).save() in the catch block: branch takes the schema default
FailedDoc(userId, url, message, now) ==
  [userId |-> userId, repositoryUrl |-> url, branch |-> "main",
   status |-> "failed", createdAt |-> now,
   analysisData |-> FALSE, insights |-> {},
   codeReview |-> FALSE, dependencies |-> "none",
   metrics |-> FALSE, complexity |-> "unset", error |-> message]

Put(store, id, doc) == [i \in DOMAIN store \cup {id} |-> IF i = id THEN doc ELSE store[i]]

\* no workspace under analysis, no analyzer method applied yet
NoManifest == [state |-> "absent", entries |-> <<>>]
NoTree == [repo |-> <<>>, packageJson |-> NoManifest, requirements |-> NoManifest]
NoOut == [fn |-> "none", threw |-> FALSE, value |-> <<>>]

\* ------------------------------------------------------ the two channels
MaxConns == 2       \* connections per channel
MaxMsgs == 2        \* messages a client sends over one stream connection

WsIds == 1..MaxConns
SocketIds == 1..MaxConns

\* no stream connection is open
NoWs ==
  [c \in WsIds |-> [open |-> FALSE, analysisId |-> NoDoc, subscribed |-> FALSE,
                    at |-> [r \in RunIds |-> "none"], received |-> <<>>,
                    sent |-> <<>>]]

\* no socket.io client is connected
NoSockets == [k \in SocketIds |-> [connected |-> FALSE, user |-> "u1", received |-> <<>>]]

\* io.emit(name, payload): every connected socket receives the event
emit(socks, event) ==
  [k \in DOMAIN socks |->
     IF socks[k].connected THEN [socks[k] EXCEPT !.received = Append(@, event)]
     ELSE socks[k]]

\* ------------------------------------------------------------------- Init
IdleRun ==
  [pc |-> "idle", user |-> "u1", url |-> "urlA", branch |-> "main", depth |-> NoDepth,
   repoPath |-> NoPath, error |-> "none", insights |-> {},
   acquired |-> 0, released |-> 0, stages |-> <<>>, faults |-> {},
   response |-> 0, details |-> "none", docs |-> {}, persisted |-> <<>>]

Init ==
  /\ run = [r \in RunIds |-> IdleRun]
  /\ disk = [d \in RepoIds |-> "absent"]
  /\ db = <<>>
  /\ nextId = 1
  /\ resp = [op |-> "none", user |-> "u1", id |-> NoDoc, code |-> 0, data |-> FALSE]
  /\ tree = NoTree
  /\ out = NoOut
  /\ ws = NoWs
  /\ sockets = NoSockets

\* ------------------------------------------------------------ the pipeline
Set(r, f) == [run EXCEPT ![r] = f]

\* a throw inside the controller's try block lands in its catch (lines 70-89)
Throw(rec, msg) == [rec EXCEPT !.pc = "caught", !.error = msg]

Urls == {"urlA"}
Branches == {"main", "dev"}
\* the empty string: a branch field that names no branch
NoBranch == ""

\* variant of repoId that names the directory after the repository url
repoId_byUrl(r, url) == CHOOSE d \in RepoIds : \A e \in RepoIds : d <= e

\* cloneRepository line 142, `${Date.now()}_${Math.random().toString(36).substr(2, 9)}`:
\* the r-th call draws the r-th value of the clock and of the generator, taken
\* to differ from the values every other call draws
repoId(r, url) == r

\* controller lines 12-18, analyzer lines 21-22, cloneRepository lines 142-150:
\* emit 'analysis-started', mkdirSync(repoPath, {recursive}), start the clone
Begin(r, u, url, b, depth) ==
  /\ run' = Set(r, [run[r] EXCEPT !.pc = "clone1", !.user = u, !.url = url,
                      !.branch = b, !.depth = depth, !.repoPath = repoId(r, url),
                      !.acquired = @ + 1,
                      !.stages = @ \o <<"started", "acquire">>])
  /\ sockets' = emit(sockets, [type |-> "analysis-started", analysisId |-> NoDoc,
                               url |-> url, userId |-> u])
  /\ disk' = [disk EXCEPT ![repoId(r, url)] = "empty"]

\* a request that passed the route's validation reaches the controller
Start(r) ==
  /\ run[r].pc = "idle"
  /\ \A q \in RunIds : q < r => run[q].pc # "idle"
  /\ \E u \in Users, url \in Urls, b \in Branches : Begin(r, u, url, b, NoDepth)
  /\ UNCHANGED <<db, nextId, resp, tree, out, ws>>

\* cloneRepository lines 147-152: git clone --depth d --branch b url repoPath ends;
\* with an empty b the command line names no repository and the clone fails
Clone1(r) ==
  /\ run[r].pc = "clone1"
  /\ \/ /\ run[r].branch # NoBranch
        /\ disk' = [disk EXCEPT ![run[r].repoPath] = "tree"]
        /\ run' = Set(r, [run[r] EXCEPT !.pc = "analyze", !.stages = @ \o <<"fetch">>])
     \/ /\ run' = Set(r, [run[r] EXCEPT !.pc = "clone2", !.faults = @ \cup {"clone1"},
                            !.stages = @ \o <<"fetch">>])
        /\ UNCHANGED disk
  /\ UNCHANGED <<db, nextId, resp, tree, out, ws, sockets>>

\* cloneRepository lines 153-158: the catch runs the clone again without --branch;
\* a second failure propagates out of cloneRepository and analyzeRepository
Clone2(r) ==
  /\ run[r].pc = "clone2"
  /\ \/ /\ disk' = [disk EXCEPT ![run[r].repoPath] = "tree"]
        /\ run' = Set(r, [run[r] EXCEPT !.pc = "analyze", !.stages = @ \o <<"refetch">>])
     \/ /\ run' = Set(r, Throw([run[r] EXCEPT !.faults = @ \cup {"clone2"},
                                  !.stages = @ \o <<"refetch">>], "clone"))
        /\ UNCHANGED disk
  /\ UNCHANGED <<db, nextId, resp, tree, out, ws, sockets>>

\* analyzer lines 27-43: the walks over repoPath, in call order;
\* includeDependencies = false leaves analyzeDependencies out
Walks(includeDependencies) ==
  IF includeDependencies
    THEN <<"structure", "languages", "configFiles", "dependencies", "metrics">>
    ELSE <<"structure", "languages", "configFiles", "metrics">>

\* cleanupTempDir lines 392-398: rmSync(recursive, force); an error is logged and swallowed
cleanupTempDir(d, path, rmThrows) ==
  IF rmThrows THEN d ELSE [d EXCEPT ![path] = "absent"]

\* getFileList lines 356-382: readdirSync(repoPath) throws ENOENT on a missing directory
getFileList(d, path, ioError) ==
  IF d[path] = "absent" THEN "ENOENT" ELSE IF ioError THEN "io" ELSE "ok"

\* analyzer lines 27-57, run without suspension once the clone has resolved:
\* the walks, cleanupTempDir (line 46), then getFileList inside the returned object
\* (line 56). failAt = k > 0: the k-th walk throws an I/O or parse error.
analyzeRepository(r) ==
  /\ run[r].pc = "analyze"
  /\ \E inc \in BOOLEAN, rmThrows \in BOOLEAN, listThrows \in BOOLEAN :
     \E failAt \in 0..Len(Walks(inc)) :
       LET walks == Walks(inc)
           path == run[r].repoPath
           cleaned == cleanupTempDir(disk, path, rmThrows)
           listed == getFileList(cleaned, path, listThrows)
           after == [run[r] EXCEPT !.stages = @ \o walks \o <<"release", "fileList">>,
                       !.released = @ + 1,
                       !.faults = @ \cup (IF rmThrows THEN {"rm"} ELSE {})
                                    \cup (IF listed = "io" THEN {"io"} ELSE {})]
       IN IF failAt > 0
            THEN /\ ~rmThrows /\ ~listThrows
                 /\ run' = Set(r, Throw([run[r] EXCEPT
                                           !.stages = @ \o SubSeq(walks, 1, failAt),
                                           !.faults = @ \cup {"io"}], "io"))
                 /\ UNCHANGED disk
            ELSE /\ disk' = cleaned
                 /\ run' = Set(r, IF listed = "ok" THEN [after EXCEPT !.pc = "enrich"]
                                  ELSE Throw(after, listed))
  /\ UNCHANGED <<db, nextId, resp, tree, out, ws, sockets>>

\* controller line 28: AIService.getRepositoryInsights(analysisResult) returns
Enrich(r) ==
  /\ run[r].pc = "enrich"
  /\ \E outcome \in CreateOutcomes :
       LET got == getRepositoryInsights(outcome)
           rec == [run[r] EXCEPT !.stages = @ \o <<"enrich">>,
                     !.faults = @ \cup (IF outcome = "json" THEN {} ELSE {outcome})]
       IN run' = Set(r, IF got.threw THEN Throw(rec, "enrichment")
                        ELSE [rec EXCEPT !.pc = "save", !.insights = got.insights])
  /\ UNCHANGED <<disk, db, nextId, resp, tree, out, ws, sockets>>

\* controller lines 38-68: new Analysis({... status: 'completed' ...}).save(), then
\* emit 'analysis-completed' and res.status(200).json(...); a rejected save throws,
\* and so may, after the save, the emit (line 52) or the response (line 58):
\* all three are inside the try
SaveCompleted(r) ==
  /\ run[r].pc = "save"
  /\ LET doc == CompletedDoc(run[r].user, run[r].url, run[r].branch,
                             run[r].insights, nextId)
         event == [type |-> "analysis-completed", analysisId |-> nextId,
                   url |-> run[r].url, userId |-> run[r].user]
         saved == [run[r] EXCEPT !.docs = @ \cup {nextId},
                     !.persisted = @ \o <<"completed">>,
                     !.stages = @ \o <<"persist">>]
     IN \/ /\ db' = Put(db, nextId, doc)
           /\ nextId' = nextId + 1
           /\ sockets' = emit(sockets, event)
           /\ run' = Set(r, [saved EXCEPT !.pc = "done", !.response = 200,
                               !.stages = @ \o <<"completed">>])
        \/ /\ run' = Set(r, Throw([run[r] EXCEPT !.faults = @ \cup {"save"},
                                     !.stages = @ \o <<"persist">>], "storage"))
           /\ UNCHANGED <<db, nextId, sockets>>
        \/ /\ db' = Put(db, nextId, doc)
           /\ nextId' = nextId + 1
           /\ run' = Set(r, Throw([saved EXCEPT !.faults = @ \cup {"emit"}], "emit"))
           /\ UNCHANGED sockets
        \/ /\ db' = Put(db, nextId, doc)
           /\ nextId' = nextId + 1
           /\ sockets' = emit(sockets, event)
           /\ run' = Set(r, Throw([saved EXCEPT !.faults = @ \cup {"respond"},
                                     !.stages = @ \o <<"completed">>], "respond"))
  /\ UNCHANGED <<disk, resp, tree, out, ws>>

\* controller lines 70-88: the catch saves a failed Analysis and answers 500 with
\* details: error.message; when that save throws too, the route hands the error
\* to errorHandler.handle, which answers with the message of that error
SaveFailed(r) ==
  /\ run[r].pc = "caught"
  /\ \/ /\ db' = Put(db, nextId, FailedDoc(run[r].user, run[r].url, run[r].error, nextId))
        /\ nextId' = nextId + 1
        /\ run' = Set(r, [run[r] EXCEPT !.pc = "done", !.response = 500,
                            !.details = run[r].error,
                            !.docs = @ \cup {nextId},
                            !.persisted = @ \o <<"failed">>])
     \/ /\ run' = Set(r, [run[r] EXCEPT !.pc = "done", !.response = 500,
                            !.details = "storage",
                            !.faults = @ \cup {"saveFailed"}])
        /\ UNCHANGED <<db, nextId>>
  /\ UNCHANGED <<disk, resp, tree, out, ws, sockets>>

Pipeline(r) ==
  \/ Start(r) \/ Clone1(r) \/ Clone2(r) \/ analyzeRepository(r)
  \/ Enrich(r) \/ SaveCompleted(r) \/ SaveFailed(r)

Next == \E r \in RunIds : Pipeline(r)

Spec == Init /\ [][Next]_vars

\* ------------------------------------------------ the start-analysis route
\* analyzeRoutes.js line 22: isInt({ min: 1, max: 10 })
MinDepth == 1
MaxDepth == 10

RequestUrls == Urls \cup {"not a url"}
RequestBranches == Branches \cup {NoBranch}
Depths == {NoDepth, MinDepth - 1, MinDepth, MaxDepth, MaxDepth + 1}

\* validator's isURL on the urls that occur
isURL(url) == url \in Urls

\* variant of validationErrors without the depth check
validationErrors_urlOnly(url, depth) ==
  IF isURL(url) THEN {} ELSE {"url"}

\* analyzeRoutes.js lines 20-23, validationResult(req): the fields in error.
\* body('branch').optional().isString() passes every string, the empty one too
validationErrors(url, depth) ==
  (IF isURL(url) THEN {} ELSE {"url"})
    \cup (IF depth = NoDepth \/ depth \in MinDepth..MaxDepth THEN {} ELSE {"depth"})

\* POST /repository, analyzeRoutes.js lines 16-39: 400 with the errors, or the
\* controller's analyzeRepository
postRepository(r) ==
  /\ run[r].pc = "idle"
  /\ \E u \in Users, url \in RequestUrls, b \in RequestBranches, depth \in Depths :
       IF validationErrors(url, depth) # {}
         THEN /\ run' = Set(r, [run[r] EXCEPT !.pc = "rejected", !.user = u,
                                  !.url = url, !.branch = b, !.depth = depth,
                                  !.response = 400])
              /\ UNCHANGED <<disk, sockets>>
         ELSE Begin(r, u, url, b, depth)
  /\ UNCHANGED <<db, nextId, resp, tree, out, ws>>

\* one request, from the route to its response
NextOne ==
  \/ postRepository(1) \/ Clone1(1) \/ Clone2(1) \/ analyzeRepository(1)
  \/ Enrich(1) \/ SaveCompleted(1) \/ SaveFailed(1)

SpecOne == Init /\ [][NextOne]_vars

\* the same with the progress the code guarantees: the synchronous walks run to
\* their end, the OpenAI client is built with a timeout (part_010 line 10) and
\* mongoose with serverSelectionTimeoutMS and socketTimeoutMS (part_012 lines
\* 58-59); execPromise(cloneCmd) is called without a timeout (lines 150, 156),
\* so nothing makes a clone that does not exit end
SpecLive ==
  /\ Init /\ [][NextOne]_vars
  /\ WF_vars(analyzeRepository(1))
  /\ WF_vars(Enrich(1))
  /\ WF_vars(SaveCompleted(1))
  /\ WF_vars(SaveFailed(1))

\* ------------------------------------------- per-analysis controller operations
Answer(op, u, id, code, data) ==
  [op |-> op, user |-> u, id |-> id, code |-> code, data |-> data]

\* getAnalysisById lines 116-137: the fields of the document the response carries
responseData(doc, includeMetrics) ==
  [repositoryUrl |-> doc.repositoryUrl, branch |-> doc.branch, status |-> doc.status,
   createdAt |-> doc.createdAt,
   metrics |-> IF includeMetrics THEN <<doc.metrics, doc.complexity>> ELSE <<>>]

\* a handler that looks the document up and answers from it without writing:
\* 500 from its catch when the lookup throws, 404 when findOne returns null
Lookup(op, u, id, storeThrows) ==
  /\ resp' = IF storeThrows THEN Answer(op, u, id, 500, FALSE)
             ELSE IF findOne(db, id, u) = NoDoc THEN Answer(op, u, id, 404, FALSE)
             ELSE Answer(op, u, id, 200, TRUE)
  /\ UNCHANGED <<run, disk, db, nextId, tree, out, ws, sockets>>

\* a handler that looks the document up, changes it and saves it:
\* 500 from its catch when the lookup or the save throws
Update(op, u, id, storeThrows, changed) ==
  /\ IF storeThrows
       THEN resp' = Answer(op, u, id, 500, FALSE) /\ UNCHANGED db
       ELSE IF findOne(db, id, u) = NoDoc
         THEN resp' = Answer(op, u, id, 404, FALSE) /\ UNCHANGED db
         ELSE resp' = Answer(op, u, id, 200, TRUE) /\ db' = [db EXCEPT ![id] = changed]
  /\ UNCHANGED <<run, disk, nextId, tree, out, ws, sockets>>

\* ids a request may name: every id in the store, plus one that is not
ApiIds == 1..(MaxDocs + 1)

getAnalysisById ==
  \E u \in Users, id \in ApiIds, storeThrows \in BOOLEAN :
    Lookup("getAnalysisById", u, id, storeThrows)

\* getSuggestions lines 245-294: 400 unless the analysis is completed
getSuggestions ==
  \E u \in Users, id \in ApiIds, storeThrows \in BOOLEAN :
    /\ resp' = IF storeThrows THEN Answer("getSuggestions", u, id, 500, FALSE)
               ELSE IF findOne(db, id, u) = NoDoc
                 THEN Answer("getSuggestions", u, id, 404, FALSE)
               ELSE IF db[id].status # "completed"
                 THEN Answer("getSuggestions", u, id, 400, FALSE)
               ELSE Answer("getSuggestions", u, id, 200, TRUE)
    /\ UNCHANGED <<run, disk, db, nextId, tree, out, ws, sockets>>

\* performCodeReview lines 299-345: analysisData.codeReview = codeReview; save()
performCodeReview ==
  \E u \in Users, id \in ApiIds, storeThrows \in BOOLEAN :
    Update("performCodeReview", u, id, storeThrows,
           IF id \in DOMAIN db THEN [db[id] EXCEPT !.codeReview = TRUE] ELSE <<>>)

\* analyzeDependencies lines 350-395: analysisData.dependencies = dependencyAnalysis; save()
analyzeDependencies ==
  \E u \in Users, id \in ApiIds, storeThrows \in BOOLEAN :
    Update("analyzeDependencies", u, id, storeThrows,
           IF id \in DOMAIN db THEN [db[id] EXCEPT !.dependencies = "ai"] ELSE <<>>)

\* calculateComplexityMetrics lines 679-692: Math.random() draws, one value per outcome
ComplexityMetrics == {"c1", "c2"}
\* calculateComplexity lines 400-441: metrics.complexity = complexityMetrics; save()
calculateComplexity ==
  \E u \in Users, id \in ApiIds, storeThrows \in BOOLEAN, c \in ComplexityMetrics :
    Update("calculateComplexity", u, id, storeThrows,
           IF id \in DOMAIN db THEN [db[id] EXCEPT !.complexity = c] ELSE <<>>)

getFileStructure ==
  \E u \in Users, id \in ApiIds, storeThrows \in BOOLEAN :
    Lookup("getFileStructure", u, id, storeThrows)

getFileContent ==
  \E u \in Users, id \in ApiIds, storeThrows \in BOOLEAN :
    Lookup("getFileContent", u, id, storeThrows)

\* Analysis.deleteOne({ _id, userId }): the store without the matching document
deleteOne(store, id, userId) ==
  IF findOne(store, id, userId) = NoDoc THEN store
  ELSE [i \in DOMAIN store \ {id} |-> store[i]]

\* deleteAnalysis lines 552-583: 404 when deletedCount is 0
deleteAnalysis ==
  \E u \in Users, id \in ApiIds, storeThrows \in BOOLEAN :
    /\ IF storeThrows
         THEN resp' = Answer("deleteAnalysis", u, id, 500, FALSE) /\ UNCHANGED db
         ELSE /\ db' = deleteOne(db, id, u)
              /\ resp' = IF db' = db THEN Answer("deleteAnalysis", u, id, 404, FALSE)
                         ELSE Answer("deleteAnalysis", u, id, 200, FALSE)
    /\ UNCHANGED <<run, disk, nextId, tree, out, ws, sockets>>

\* analysisSchema.methods.updateStatus (User.js lines 253-264): status is assigned
\* whatever the current one is; the schema's enum is all save() validates
Statuses == {"pending", "analyzing", "completed", "failed"}
updateStatus ==
  \E id \in DOMAIN db, status \in Statuses, storeThrows \in BOOLEAN :
    /\ db' = IF storeThrows THEN db
             ELSE [db EXCEPT ![id] =
                     IF status = "completed"
                       THEN [@ EXCEPT !.status = status, !.analysisData = TRUE,
                                      !.metrics = TRUE]
                     ELSE IF status = "failed"
                       THEN [@ EXCEPT !.status = status, !.error = "Analysis failed"]
                     ELSE [@ EXCEPT !.status = status]]
    /\ UNCHANGED <<run, disk, nextId, resp, tree, out, ws, sockets>>

\* the stores the pipeline leaves behind: per id a completed or a failed document
\* of a request that named no branch
Docs(id) ==
  {CompletedDoc(u, url, "main", InsightKeys, id) : u \in Users, url \in Urls}
  \cup {FailedDoc(u, url, "ENOENT", id) : u \in Users, url \in Urls}

InitApi ==
  /\ run = [r \in RunIds |-> IdleRun]
  /\ disk = [d \in RepoIds |-> "absent"]
  /\ db \in {f \in [1..MaxDocs -> UNION {Docs(i) : i \in 1..MaxDocs}] :
               \A i \in 1..MaxDocs : f[i] \in Docs(i)}
  /\ nextId = MaxDocs + 1
  /\ resp = [op |-> "none", user |-> "u1", id |-> NoDoc, code |-> 0, data |-> FALSE]
  /\ tree = NoTree
  /\ out = NoOut
  /\ ws = NoWs
  /\ sockets = NoSockets

NextApi ==
  \/ getAnalysisById \/ getSuggestions \/ performCodeReview \/ analyzeDependencies
  \/ calculateComplexity \/ getFileStructure \/ getFileContent \/ deleteAnalysis

\* the controller operations on the stored analyses
SpecApi == InitApi /\ [][NextApi]_vars

\* the same with the model's updateStatus method callable on any document
SpecStore == InitApi /\ [][NextApi \/ updateStatus]_vars

\* ------------------------------------------------------ the progress stream
\* what a client sends over the stream: three messages that are JSON objects
\* with a type, the JSON text null and a text that is not JSON
ClientMessages == {"subscribe", "get-progress", "unsubscribe", "null", "not json"}

\* JSON.parse(message) followed by data.type (lines 328-330): the type, or the
\* error thrown by JSON.parse or by reading .type of null
parseType(message) ==
  IF message = "not json" THEN [threw |-> TRUE, type |-> "SyntaxError"]
  ELSE IF message = "null" THEN [threw |-> TRUE, type |-> "TypeError"]
  ELSE [threw |-> FALSE, type |-> message]

\* getAnalysisProgress lines 645-654: the same object for every analysis
getAnalysisProgress(analysisId) ==
  [analysisId |-> analysisId, progress |-> 75, status |-> "analyzing"]

Reply(type, status, message) == [type |-> type, status |-> status, message |-> message]

\* variant of replies whose default case sends nothing
replies_silentDefault(analysisId, message) ==
  LET data == parseType(message) IN
    IF data.threw THEN <<Reply("error", "none", data.type)>>
    ELSE IF data.type = "subscribe" THEN <<Reply("subscribed", "none", "none")>>
    ELSE IF data.type = "get-progress"
      THEN <<Reply("progress", getAnalysisProgress(analysisId).status, "none")>>
    ELSE <<>>

\* the message handler, lines 327-361: what it sends for one client message
replies(analysisId, message) ==
  LET data == parseType(message) IN
    IF data.threw THEN <<Reply("error", "none", data.type)>>
    ELSE IF data.type = "subscribe" THEN <<Reply("subscribed", "none", "none")>>
    ELSE IF data.type = "get-progress"
      THEN <<Reply("progress", getAnalysisProgress(analysisId).status, "none")>>
    ELSE <<Reply("error", "none", "Unknown message type")>>

\* router.ws('/:analysisId/stream') lines 323-324: a client connects
wsOpen(c) ==
  /\ ~ws[c].open
  /\ \E id \in ApiIds : ws' = [ws EXCEPT ![c].open = TRUE, ![c].analysisId = id]
  /\ UNCHANGED <<run, disk, db, nextId, resp, tree, out, sockets>>

\* ws.on('message') lines 327-361: 'subscribe' sets ws.analysisId; the replies
\* are sent on the same connection, which the handler never closes
onMessage(c, message) ==
  /\ ws[c].open
  /\ ws' = [ws EXCEPT ![c] =
              [@ EXCEPT !.received = Append(@, message),
                        !.sent = @ \o replies(ws[c].analysisId, message),
                        !.subscribed = @ \/ message = "subscribe",
                        !.at = IF message = "subscribe" /\ ~ws[c].subscribed
                                 THEN [r \in RunIds |-> run[r].pc] ELSE @]]
  /\ UNCHANGED <<run, disk, db, nextId, resp, tree, out, sockets>>

wsMessage(c) ==
  /\ Len(ws[c].received) < MaxMsgs
  /\ \E message \in ClientMessages : onMessage(c, message)

wsSubscribe(c) == ws[c].received = <<>> /\ onMessage(c, "subscribe")

\* io.on('connection') (part_012 lines 23-24): a client connects; no handler
\* joins it to a room of an analysis
ioConnect(k) ==
  /\ ~sockets[k].connected
  /\ \E u \in Users : sockets' = [sockets EXCEPT ![k].connected = TRUE, ![k].user = u]
  /\ UNCHANGED <<run, disk, db, nextId, resp, tree, out, ws>>

\* one client on the stream of one of the stored analyses
NextStream == wsOpen(1) \/ wsMessage(1)
SpecStream == InitApi /\ [][NextStream]_vars

\* one request and the stream clients that subscribe while it runs
NextEvents == Pipeline(1) \/ \E c \in WsIds : wsOpen(c) \/ wsSubscribe(c)
SpecEvents == Init /\ [][NextEvents]_vars

\* one request and the socket.io clients connected while it runs
NextSockets == Pipeline(1) \/ \E k \in SocketIds : ioConnect(k)
SpecSockets == Init /\ [][NextSockets]_vars

\* ------------------------------------------------- the analyzer's walks
MaxFiles == 3       \* files in the repository that is cloned

\* a file: name, the extension path.extname finds in it, the directory it is in,
\* whether readFileSync returns for it and what split('\n').length then gives
File(name, ext, dir) ==
  [name |-> name, ext |-> ext, dir |-> dir, lines |-> 1, readable |-> TRUE]

FileNames ==
  {File("a.js", ".js", ""), File("b.py", ".py", ""), File("README.md", ".md", ""),
   File("c.JS", ".JS", "lib"), File("d.yaml", ".yaml", ""), File("e.YML", ".YML", "ci"),
   File("f.png", ".png", ""), File("g.xyz", ".xyz", "")}

\* git clone (cloneRepository lines 147, 155) leaves the repository's files in
\* repoPath next to the .git directory it creates
GitMetadata ==
  <<[name |-> "HEAD", ext |-> "", dir |-> ".git", lines |-> 2, readable |-> TRUE],
    [name |-> "config", ext |-> "", dir |-> ".git", lines |-> 2, readable |-> TRUE]>>

ManifestFiles(t) ==
  (IF t.packageJson.state = "absent" THEN <<>>
   ELSE <<File("package.json", ".json", "")>>)
  \o (IF t.requirements.state = "absent" THEN <<>>
      ELSE <<File("requirements.txt", ".txt", "")>>)

\* the files of the repository itself
RepoFiles(t) == t.repo \o ManifestFiles(t)

\* the non-directory entries under repoPath after the clone, in readdirSync order
cloned(t) == GitMetadata \o RepoFiles(t)

\* String.prototype.toLowerCase on the extensions that occur
toLowerCase(ext) ==
  CASE ext = ".JS" -> ".js"
    [] ext = ".YML" -> ".yml"
    [] OTHER -> ext

Dirs(files) == {files[i].dir : i \in 1..Len(files)} \ {""}

\* analyzeStructure lines 161-188: every entry under repoPath is counted
RECURSIVE walkStructure(_, _)
walkStructure(files, structure) ==
  IF files = <<>> THEN structure
  ELSE walkStructure(Tail(files), [structure EXCEPT !.files = @ + 1])

analyzeStructure(files) ==
  walkStructure(files, [directories |-> Cardinality(Dirs(files)), files |-> 0])

\* detectLanguages lines 191-213: the extension table
extensions ==
  [e \in {".js", ".ts", ".py", ".java", ".go", ".rs", ".rb", ".php", ".cpp", ".c",
          ".cs", ".swift", ".kt", ".scala", ".html", ".css", ".json", ".yaml",
          ".yml", ".xml", ".md"} |->
     CASE e = ".js" -> "JavaScript" [] e = ".ts" -> "TypeScript"
       [] e = ".py" -> "Python" [] e = ".java" -> "Java" [] e = ".go" -> "Go"
       [] e = ".rs" -> "Rust" [] e = ".rb" -> "Ruby" [] e = ".php" -> "PHP"
       [] e = ".cpp" -> "C++" [] e = ".c" -> "C" [] e = ".cs" -> "C#"
       [] e = ".swift" -> "Swift" [] e = ".kt" -> "Kotlin" [] e = ".scala" -> "Scala"
       [] e = ".html" -> "HTML" [] e = ".css" -> "CSS" [] e = ".json" -> "JSON"
       [] e = ".yaml" -> "YAML" [] e = ".yml" -> "YAML" [] e = ".xml" -> "XML"
       [] e = ".md" -> "Markdown"]

Elems(seq) == {seq[i] : i \in 1..Len(seq)}

\* Set.prototype.add: insertion order is kept, a present value is not added again
add(languages, name) ==
  IF name \in Elems(languages) THEN languages ELSE Append(languages, name)

\* variant of detectLanguages that collects into an array with push
RECURSIVE detectLanguages_push(_, _)
detectLanguages_push(files, languages) ==
  IF files = <<>> THEN languages
  ELSE LET ext == toLowerCase(Head(files).ext) IN
       detectLanguages_push(Tail(files),
         IF ext \in DOMAIN extensions THEN Append(languages, extensions[ext])
         ELSE languages)

\* detectLanguages lines 215-233: the walk over the entries; Array.from(languages)
RECURSIVE detectLanguages(_, _)
detectLanguages(files, languages) ==
  IF files = <<>> THEN languages
  ELSE LET ext == toLowerCase(Head(files).ext) IN
       detectLanguages(Tail(files),
         IF ext \in DOMAIN extensions THEN add(languages, extensions[ext])
         ELSE languages)

\* isTextFile lines 384-390, on the extensions that occur
binaryExtensions == {".png", ".jpg", ".jpeg", ".gif", ".ico", ".svg", ".pdf", ".zip",
                     ".tar", ".gz", ".exe", ".dll", ".so", ".dylib", ".class", ".jar",
                     ".war"}
isTextFile(file) == toLowerCase(file.ext) \notin binaryExtensions

\* variant of walkMetrics whose comparison is lines >= largestFile.lines
RECURSIVE walkMetrics_lastWins(_, _)
walkMetrics_lastWins(files, metrics) ==
  IF files = <<>> THEN metrics
  ELSE LET file == Head(files) IN
       walkMetrics_lastWins(Tail(files),
         IF ~isTextFile(file) THEN metrics
         ELSE IF ~file.readable
           THEN [metrics EXCEPT !.totalFiles = @ + 1]
         ELSE [totalFiles |-> metrics.totalFiles + 1,
               totalLines |-> metrics.totalLines + file.lines,
               largestFile |-> IF file.lines >= metrics.largestFile.lines
                                 THEN [name |-> file.name, lines |-> file.lines]
                                 ELSE metrics.largestFile])

\* calculateMetrics lines 318-347, the walk over the text files: totalFiles++
\* (line 327) comes before the try; a readFileSync that throws is caught (340)
RECURSIVE walkMetrics(_, _)
walkMetrics(files, metrics) ==
  IF files = <<>> THEN metrics
  ELSE LET file == Head(files) IN
       walkMetrics(Tail(files),
         IF ~isTextFile(file) THEN metrics
         ELSE IF ~file.readable
           THEN [metrics EXCEPT !.totalFiles = @ + 1]
         ELSE [totalFiles |-> metrics.totalFiles + 1,
               totalLines |-> metrics.totalLines + file.lines,
               largestFile |-> IF file.lines > metrics.largestFile.lines
                                 THEN [name |-> file.name, lines |-> file.lines]
                                 ELSE metrics.largestFile])

\* calculateMetrics lines 310-354; Math.round of a non-negative quotient
calculateMetrics(files) ==
  LET m == walkMetrics(files, [totalFiles |-> 0, totalLines |-> 0,
                               largestFile |-> [name |-> "", lines |-> 0]])
  IN [totalFiles |-> m.totalFiles, totalLines |-> m.totalLines,
      largestFile |-> m.largestFile,
      avgLinesPerFile |-> IF m.totalFiles > 0
                            THEN (2 * m.totalLines + m.totalFiles) \div (2 * m.totalFiles)
                            ELSE 0]

\* the listings of at most n distinct files drawn from S
SeqsNoRepeat(S, n) ==
  {q \in UNION {[1..k -> S] : k \in 0..n} :
     \A i, j \in 1..Len(q) : i # j => q[i] # q[j]}

\* a workspace right after the clone of a repository of at most MaxFiles files
InitWalk ==
  /\ run = [r \in RunIds |-> IdleRun]
  /\ disk = [d \in RepoIds |-> "absent"]
  /\ db = <<>>
  /\ nextId = 1
  /\ resp = [op |-> "none", user |-> "u1", id |-> NoDoc, code |-> 0, data |-> FALSE]
  /\ tree \in {[NoTree EXCEPT !.repo = q] : q \in SeqsNoRepeat(FileNames, MaxFiles)}
  /\ out = NoOut
  /\ ws = NoWs
  /\ sockets = NoSockets

Call(fn, value) ==
  /\ out' = [fn |-> fn, threw |-> FALSE, value |-> value]
  /\ UNCHANGED <<run, disk, db, nextId, resp, tree, ws, sockets>>

CallAnalyzeStructure == Call("analyzeStructure", analyzeStructure(cloned(tree)))
CallDetectLanguages == Call("detectLanguages", detectLanguages(cloned(tree), <<>>))
CallCalculateMetrics == Call("calculateMetrics", calculateMetrics(cloned(tree)))

NextWalk == CallAnalyzeStructure \/ CallDetectLanguages \/ CallCalculateMetrics

\* the analyzer's walks applied to a cloned workspace
SpecWalk == InitWalk /\ [][NextWalk]_vars

MaxLines == 3       \* lines of a file of the repository

\* the files calculateMetrics meets: text and binary ones, and link.js, a
\* dangling symbolic link; 0 lines stands for a readFileSync that throws
MetricNames ==
  {File("a.js", ".js", ""), File("b.py", ".py", ""), File("f.png", ".png", ""),
   File("link.js", ".js", "")}
MetricFiles ==
  {[f EXCEPT !.lines = n, !.readable = (n > 0)] : f \in MetricNames, n \in 0..MaxLines}

\* a workspace right after the clone, its files of any length, some unreadable
InitMetrics ==
  /\ run = [r \in RunIds |-> IdleRun]
  /\ disk = [d \in RepoIds |-> "absent"]
  /\ db = <<>>
  /\ nextId = 1
  /\ resp = [op |-> "none", user |-> "u1", id |-> NoDoc, code |-> 0, data |-> FALSE]
  /\ tree \in {[NoTree EXCEPT !.repo = q] :
                 q \in {p \in SeqsNoRepeat(MetricFiles, MaxFiles) :
                          \A i, j \in 1..Len(p) : i # j => p[i].name # p[j].name}}
  /\ out = NoOut
  /\ ws = NoWs
  /\ sockets = NoSockets

NextMetrics == CallCalculateMetrics \/ CallAnalyzeStructure

\* calculateMetrics applied to a cloned workspace
SpecMetrics == InitMetrics /\ [][NextMetrics]_vars

\* ---------------------------------------------- the analyzer's manifests
MaxDeps == 2        \* entries of the dependencies section of package.json
MaxVerLen == 3      \* characters of a version string
MaxReqLines == 2    \* lines of requirements.txt

\* version strings are sequences of characters over this alphabet
VersionChars == {"^", "~", "1"}
Strings(chars, n) == UNION {[1..k -> chars] : k \in 0..n}

\* String.prototype.replace(pattern, '') with a string pattern: the first
\* occurrence of the pattern is removed, later ones stay
RECURSIVE replace(_, _)
replace(str, pattern) ==
  IF str = <<>> THEN <<>>
  ELSE IF Head(str) = pattern THEN Tail(str)
  ELSE <<Head(str)>> \o replace(Tail(str), pattern)

\* lines 279-286: one record per entry of packageJson.dependencies
RECURSIVE npmRecords(_, _)
npmRecords(entries, i) ==
  IF i > Len(entries) THEN <<>>
  ELSE <<[name |-> i, version |-> replace(replace(entries[i], "^"), "~"),
          manager |-> "npm"]>> \o npmRecords(entries, i + 1)

\* the lines of requirements.txt: a pin name==version, or anything else
ReqLines == {"flask==1", "# comment"}
\* line.match(/^([a-zA-Z0-9_-]+)==([0-9.]+)/)
match(line) == IF line = "flask==1" THEN <<"flask", <<"1">>>> ELSE <<>>

\* lines 294-304: one record per line the pattern matches
RECURSIVE pipRecords(_)
pipRecords(lines) ==
  IF lines = <<>> THEN <<>>
  ELSE (IF match(Head(lines)) # <<>>
          THEN <<[name |-> match(Head(lines))[1], version |-> match(Head(lines))[2],
                  manager |-> "pip"]>>
          ELSE <<>>) \o pipRecords(Tail(lines))

\* RepoAnalyzer.analyzeDependencies lines 271-308: JSON.parse of package.json is
\* not inside a try, so a file that is not JSON makes the method throw
RepoAnalyzer_analyzeDependencies(t) ==
  IF t.packageJson.state = "malformed"
    THEN [threw |-> TRUE, value |-> <<>>]
    ELSE [threw |-> FALSE,
          value |-> npmRecords(t.packageJson.entries, 1)
                      \o (IF t.requirements.state = "absent" THEN <<>>
                          ELSE pipRecords(t.requirements.entries))]

PackageJsons ==
  {NoManifest, [state |-> "malformed", entries |-> <<>>]}
  \cup {[state |-> "parsed", entries |-> d] :
          d \in Strings(Strings(VersionChars, MaxVerLen), MaxDeps)}

Requirements ==
  {NoManifest} \cup {[state |-> "read", entries |-> l] : l \in Strings(ReqLines, MaxReqLines)}

\* a workspace right after the clone of a repository holding the two manifests
InitDeps ==
  /\ run = [r \in RunIds |-> IdleRun]
  /\ disk = [d \in RepoIds |-> "absent"]
  /\ db = <<>>
  /\ nextId = 1
  /\ resp = [op |-> "none", user |-> "u1", id |-> NoDoc, code |-> 0, data |-> FALSE]
  /\ tree \in {[repo |-> <<>>, packageJson |-> p, requirements |-> q] :
                 p \in PackageJsons, q \in Requirements}
  /\ out = NoOut
  /\ ws = NoWs
  /\ sockets = NoSockets

CallAnalyzeDependencies ==
  LET got == RepoAnalyzer_analyzeDependencies(tree) IN
    /\ out' = [fn |-> "analyzeDependencies", threw |-> got.threw, value |-> got.value]
    /\ UNCHANGED <<run, disk, db, nextId, resp, tree, ws, sockets>>

\* a manifest is a file of the workspace, which the walks see too
NextDeps == CallAnalyzeDependencies \/ CallAnalyzeStructure

\* analyzeDependencies applied to a cloned workspace
SpecDeps == InitDeps /\ [][NextDeps]_vars

\* ------------------------------------------------------------------ claims
Finished(r) == run[r].pc = "done"

\* C1: once a run is in a terminal state, the workspace directory that
\* cloneRepository created for it no longer exists on disk.
C1_WorkspaceGoneAtTerminal ==
  \A r \in RunIds :
    Finished(r) /\ run[r].repoPath # NoPath => disk[run[r].repoPath] = "absent"

\* C2: when a run has ended, cleanupTempDir was invoked exactly once for the
\* workspace that cloneRepository's mkdir acquired, and it is never invoked more
\* often than the workspace was acquired.
C2_ReleaseOncePerAcquire ==
  \A r \in RunIds :
    /\ run[r].released <= run[r].acquired
    /\ Finished(r) => run[r].released = run[r].acquired

\* C3: a run in which nothing failed (both the clone and every later I/O and
\* store operation succeeded) ends with a completed record and a 200 response.
C3_ReachableUrlCompletes ==
  \A r \in RunIds :
    Finished(r) /\ run[r].faults = {} =>
      run[r].persisted = <<"completed">> /\ run[r].response = 200

Forward(a, b) ==
  \/ a = b
  \/ a = "pending" /\ b = "analyzing"
  \/ a = "analyzing" /\ b \in Terminal

\* C4: the status of a stored Analysis only moves forward along
\* pending -> analyzing -> {completed | failed}, whatever operation acts on it.
C4_StatusForwardOnly ==
  [][\A id \in DOMAIN db \cap DOMAIN db' : Forward(db[id].status, db'[id].status)]_vars

\* C5: a record enters the store in status pending; it is never first seen
\* in a terminal status.
C5_CreatedPending ==
  [][\A id \in DOMAIN db' \ DOMAIN db : db'[id].status = "pending"]_vars

\* C6: within a run the workspace is released after every stage that reads it,
\* after enrichment and after persistence.
C6_ReleaseIsLast ==
  \A r \in RunIds :
    LET st == run[r].stages IN
      \A i, j \in 1..Len(st) :
        st[i] = "release"
          /\ st[j] \in {"structure", "languages", "configFiles", "dependencies",
                        "metrics", "fileList", "enrich", "persist"}
          => j < i

EnrichFailed(r) == run[r].faults \cap CreateThrows # {}

\* C7: when the enrichment call throws and the save, the emit and the response
\* that follow it succeed, the run does not enter the failure path: it persists exactly one record,
\* completed, and answers 200.
C7_EnrichmentFailureCompletes ==
  \A r \in RunIds :
    EnrichFailed(r) /\ run[r].faults \cap {"save", "emit", "respond"} = {} =>
      /\ run[r].pc \in {"save", "done"}
      /\ Finished(r) => run[r].persisted = <<"completed">> /\ run[r].response = 200

C7_Witness ==
  \E r \in RunIds :
    /\ Finished(r) /\ EnrichFailed(r)
    /\ run[r].persisted = <<"completed">> /\ run[r].response = 200

\* C8: whenever the enrichment call failed or its completion was not the
\* insights object, the insights the controller works with are the fallback
\* object with exactly the five keys.
C8_FallbackOnAnyFailure ==
  \A r \in RunIds :
    run[r].pc \in {"save", "done"} /\ "enrich" \in {run[r].stages[i] : i \in 1..Len(run[r].stages)}
      /\ run[r].faults \cap (CreateOutcomes \ {"json"}) # {}
      => run[r].insights = getMockInsights

NotOwned(store, id, u) == id \notin DOMAIN store \/ store[id].userId # u

\* C9 as stated: an operation by user U on an id that does not exist or that
\* another user owns is answered 404, carries no field of the document and
\* leaves the store unchanged.
C9_NotOwnedIs404 ==
  [][NotOwned(db, resp'.id, resp'.user) =>
       resp'.code = 404 /\ ~resp'.data /\ db' = db]_vars

\* C9 amended: such an operation is answered 404, or 500 when the store lookup
\* itself throws; in both cases the response carries no field of the document
\* and the store is unchanged.
C9_NotOwnedIs404Or500 ==
  [][NotOwned(db, resp'.id, resp'.user) =>
       resp'.code \in {404, 500} /\ ~resp'.data /\ db' = db]_vars

C9_Witness ==
  /\ resp.op = "deleteAnalysis" /\ resp.code = 404
  /\ resp.id \in DOMAIN db /\ db[resp.id].userId # resp.user

\* C10: no controller operation changes what Get analysis returns for a record
\* in a terminal status: url, branch, createdAt, status and metrics stay the same.
C10_TerminalRecordImmutable ==
  [][\A id \in DOMAIN db \cap DOMAIN db' :
       db[id].status \in Terminal =>
         responseData(db'[id], TRUE) = responseData(db[id], TRUE)]_vars

Populated(doc) ==
  doc.metrics \/ doc.complexity # "unset" \/ doc.analysisData \/ doc.codeReview
    \/ doc.dependencies # "none"

\* C11: a stored record has a populated error field only if its status is
\* failed, and populated metrics or analysisData only if its status is completed.
C11_FieldsMatchStatus ==
  \A id \in DOMAIN db :
    /\ db[id].error # "none" => db[id].status = "failed"
    /\ Populated(db[id]) => db[id].status = "completed"

\* C12: a run ends with a failed record only because the clone failed (a
\* malformed request never starts a run); every other failure is absorbed and
\* the run ends completed.
C12_FailedOnlyByClone ==
  \A r \in RunIds :
    Finished(r) /\ "failed" \in {run[r].persisted[i] : i \in 1..Len(run[r].persisted)}
      => "clone2" \in run[r].faults /\ run[r].error = "clone"

\* C16: when the clone with the requested branch fails, the clone without it
\* succeeds and nothing else fails, the run ends completed with a 200 response
\* and carries no error.
C16_FallbackCompletesSilently ==
  \A r \in RunIds :
    Finished(r) /\ run[r].faults = {"clone1"} =>
      /\ run[r].persisted = <<"completed">> /\ run[r].response = 200
      /\ run[r].error = "none"

\* the languages the extension table gives the lower-cased extensions of the
\* entries of a workspace
TableLanguages(files) ==
  {extensions[e] : e \in {toLowerCase(files[i].ext) : i \in 1..Len(files)}
                          \cap DOMAIN extensions}

\* C20: detectLanguages returns exactly the languages the extension table
\* assigns to the lower-cased extensions of the files in the tree, each
\* language once (.yaml and .yml give one YAML), and extensions outside the
\* table add nothing and raise no error.
C20_LanguagesAreTableImage ==
  out.fn = "detectLanguages" =>
    /\ ~out.threw
    /\ Elems(out.value) = TableLanguages(cloned(tree))
    /\ Len(out.value) = Cardinality(Elems(out.value))

C20_Witness ==
  /\ out.fn = "detectLanguages"
  /\ {".yaml", ".YML", ".xyz"} \subseteq {tree.repo[i].ext : i \in 1..Len(tree.repo)}
  /\ out.value = <<"YAML">>

\* C19: structure.files is the number of files of the analysed repository
\* itself (0 for an empty repository, whose metrics.totalLines is 0 too);
\* what the clone adds under .git is not counted.
C19_FilesCountRepositoryContent ==
  /\ out.fn = "analyzeStructure" => out.value.files = Len(RepoFiles(tree))
  /\ out.fn = "calculateMetrics" /\ RepoFiles(tree) = <<>> => out.value.totalLines = 0

Managed(records, manager) == SelectSeq(records, LAMBDA d : d.manager = manager)

\* C13: when package.json does not parse, analyzeDependencies does not throw:
\* package.json contributes no record and the records of requirements.txt are
\* still returned.
C13_BadManifestContributesNothing ==
  out.fn = "analyzeDependencies" /\ tree.packageJson.state = "malformed" =>
    /\ ~out.threw
    /\ Managed(out.value, "npm") = <<>>
    /\ Managed(out.value, "pip") = pipRecords(tree.requirements.entries)

\* C18: a package.json whose dependencies section has N entries yields exactly
\* N npm records, one per key, and no returned version contains '^' or '~',
\* whatever the version string was.
C18_OneRecordPerEntryNoMarkers ==
  out.fn = "analyzeDependencies" /\ tree.packageJson.state = "parsed" =>
    LET npm == Managed(out.value, "npm") IN
      /\ Len(npm) = Len(tree.packageJson.entries)
      /\ \A i \in 1..Len(npm) :
           /\ npm[i].name = i
           /\ Elems(npm[i].version) \cap {"^", "~"} = {}

Malformed(url, depth) ==
  url = "not a url" \/ (depth # NoDepth /\ (depth < 1 \/ depth > 10))

\* C14: a start-analysis request whose url is not a URL or whose depth is
\* outside 1..10 is answered 400 and goes no further: no workspace directory
\* is created, neither the controller nor cloneRepository runs, and no Analysis
\* record is written.
C14_MalformedRejectedEarly ==
  \A r \in RunIds :
    run[r].pc # "idle" /\ Malformed(run[r].url, run[r].depth) =>
      /\ run[r].pc = "rejected" /\ run[r].response = 400
      /\ run[r].repoPath = NoPath /\ run[r].acquired = 0 /\ disk[r] = "absent"
      /\ run[r].stages = <<>>
      /\ run[r].docs = {} /\ db = <<>>

C14_Witness ==
  \E r \in RunIds :
    /\ run[r].pc = "rejected" /\ run[r].url \in Urls /\ run[r].depth = 11
    /\ run[r].response = 400 /\ db = <<>>

Attempts(r) ==
  Cardinality({i \in 1..Len(run[r].stages) : run[r].stages[i] \in {"fetch", "refetch"}})

\* C15: cloneRepository runs the clone at most twice per call; the second
\* attempt happens only if the first failed and a branch was specified; and
\* when the second fails the call fails with the clone's error.
C15_SecondCloneOnlyForBranch ==
  \A r \in RunIds :
    /\ Attempts(r) <= 2
    /\ "refetch" \in Elems(run[r].stages) =>
         "clone1" \in run[r].faults /\ run[r].branch # NoBranch
    /\ "clone2" \in run[r].faults =>
         run[r].pc \in {"caught", "done"} /\ run[r].error = "clone"

\* C17: every run that was started eventually reaches a terminal status.
C17_StartedRunTerminates ==
  \A r \in RunIds : run[r].pc \in {"clone1", "clone2"} ~> Finished(r)

\* the messages of the exceptions the pipeline can catch
RawDiagnostics == {"clone", "io", "ENOENT", "storage", "enrichment", "emit", "respond"}

\* C26: when a run fails, neither the error field of the persisted record nor
\* the error response carries the message of the underlying exception.
C26_NoRawDiagnostics ==
  /\ \A id \in DOMAIN db :
       db[id].status = "failed" => db[id].error \notin RawDiagnostics
  /\ \A r \in RunIds :
       Finished(r) /\ run[r].response = 500 => run[r].details \notin RawDiagnostics

InFlight(r) == run[r].pc \in {"clone1", "clone2", "analyze"}

C29_ExactlyOneRecord ==
  \A r \in RunIds :
    Finished(r) =>
      /\ Len(run[r].persisted) = 1
      /\ run[r].persisted = <<"completed">> => run[r].response = 200
      /\ run[r].persisted = <<"failed">> => run[r].response = 500

TerminalEvents(r) == SelectSeq(run[r].stages, LAMBDA e : e \in Terminal)

\* C30: a run that emitted the started event and has ended with one persisted
\* record has emitted exactly one terminal event, of the type of that record's
\* status.
C30_OneTerminalEvent ==
  \A r \in RunIds :
    Finished(r) /\ Len(run[r].persisted) = 1 /\ "started" \in Elems(run[r].stages)
      => TerminalEvents(r) = run[r].persisted

\* the files calculateMetrics reads: text files whose read succeeds, in visit order
Counted(files) == SelectSeq(files, LAMBDA f : isTextFile(f) /\ f.readable)

RECURSIVE SumLines(_)
SumLines(files) == IF files = <<>> THEN 0 ELSE Head(files).lines + SumLines(Tail(files))

MaxOf(S) == IF S = {} THEN 0 ELSE CHOOSE m \in S : \A n \in S : n <= m

\* C21: largestFile.lines is the maximum line count over the counted files (0
\* with an empty name when there are none), and largestFile names the first
\* visited file with that count: a later file with an equal count does not
\* replace it.
C21_LargestFileFirstMaximum ==
  out.fn = "calculateMetrics" =>
    LET counted == Counted(cloned(tree))
        most == MaxOf({counted[i].lines : i \in 1..Len(counted)})
        largest == out.value.largestFile
    IN /\ largest.lines = most
       /\ counted = <<>> => largest.name = ""
       /\ counted # <<>> =>
            \E i \in 1..Len(counted) :
              /\ counted[i].name = largest.name /\ counted[i].lines = most
              /\ \A j \in 1..(i - 1) : counted[j].lines < most

C21_Witness ==
  /\ out.fn = "calculateMetrics"
  /\ Len(tree.repo) = 2
  /\ tree.repo[1].lines = MaxLines /\ tree.repo[2].lines = MaxLines
  /\ isTextFile(tree.repo[1]) /\ isTextFile(tree.repo[2])
  /\ out.value.largestFile = [name |-> tree.repo[1].name, lines |-> MaxLines]

\* C22: calculateMetrics returns although a read failed, and the file whose
\* read failed counts in neither totalLines nor totalFiles, so avgLinesPerFile
\* is the rounded mean over the files that were read.
C22_UnreadableFileNotCounted ==
  out.fn = "calculateMetrics" =>
    LET counted == Counted(cloned(tree)) IN
      /\ ~out.threw
      /\ out.value.totalLines = SumLines(counted)
      /\ out.value.totalFiles = Len(counted)
      /\ out.value.avgLinesPerFile =
           (2 * SumLines(counted) + Len(counted)) \div (2 * Len(counted))

\* the type of the message the stream owes a client message
Expected(message) ==
  IF message = "subscribe" THEN "subscribed"
  ELSE IF message = "get-progress" THEN "progress" ELSE "error"

\* C23: on the progress stream every client message is answered, in order:
\* 'subscribe' by 'subscribed', 'get-progress' by 'progress', every other type
\* and every message that does not parse by 'error'; and the connection is
\* still open afterwards.
C23_EveryMessageAnswered ==
  \A c \in WsIds :
    /\ Len(ws[c].sent) = Len(ws[c].received)
    /\ \A i \in 1..Len(ws[c].sent) : ws[c].sent[i].type = Expected(ws[c].received[i])
    /\ ws[c].received # <<>> => ws[c].open

C23_Witness ==
  \E c \in WsIds :
    /\ ws[c].open /\ ws[c].received = <<"not json", "unsubscribe">>
    /\ ws[c].sent = <<Reply("error", "none", "SyntaxError"),
                      Reply("error", "none", "Unknown message type")>>

Types(msgs) == [i \in 1..Len(msgs) |-> msgs[i].type]

\* C24: a stream client that subscribed to the id of an analysis while its run
\* was under way has, once the run has ended completed, received the completed
\* event exactly once.
C24_SubscribersGetCompletedOnce ==
  \A r \in RunIds, c \in WsIds :
    /\ Finished(r) /\ run[r].persisted = <<"completed">>
    /\ ws[c].subscribed /\ ws[c].analysisId \in run[r].docs
    /\ ws[c].at[r] \in {"clone1", "clone2", "analyze", "enrich", "save"}
    => Len(SelectSeq(Types(ws[c].sent),
                     LAMBDA t : t \in {"completed", "analysis-completed"})) = 1

\* C25: the snapshot a stream client obtains for a stored analysis reports the
\* current status of that analysis.
C25_SnapshotIsCurrentStatus ==
  \A c \in WsIds : \A i \in 1..Len(ws[c].sent) :
    ws[c].sent[i].type = "progress" /\ ws[c].analysisId \in DOMAIN db
      => ws[c].sent[i].status = db[ws[c].analysisId].status

\* C27: a connection receives progress events only of analyses of its own user.
C27_EventsOnlyToOwner ==
  \A k \in SocketIds : \A i \in 1..Len(sockets[k].received) :
    sockets[k].received[i].userId = sockets[k].user

====
